---- MODULE Spec2Model ----
(***************************************************************************)
(* The ADRIS dashboard backend (src/dashboard/dashboard_server.py): the    *)
(* single background updater thread, the cached state it maintains and the *)
(* durable CSV log it appends to.                                          *)
(*                                                                         *)
(* Values.  A JSON scalar is [t, v]: t = "num" (a finite number v),        *)
(* "nan" (NaN / Infinity: float() accepts it), "str" (a non-numeric        *)
(* string such as "N/A": float() raises) or "null" (None / key absent).    *)
(* Numbers are integers; a confidence is counted in hundredths (87 is      *)
(* 0.87), a time in seconds, a latency and a rate in thousandths (42 is    *)
(* 0.042).  A byte string is [img, enc, boxes]: the                        *)
(* picture it encodes (img = "" is b"", "torn" is undecodable bytes), the   *)
(* JPEG quality it was re-encoded with (0: as read) and the boxes drawn.   *)
(***************************************************************************)
EXTENDS Integers, Sequences, FiniteSets, TLC

\* ------------------------------------------------------------------ bounds
\* Number of update cycles explored: by Spec, over a few payloads, and by
\* SpecAllInputs, over every kind of payload.
MaxCycles == 3
MaxCyclesAllInputs == 2
\* ... and by the specifications with request threads or store events.
MaxCyclesFew == 2
\* ... and by the specification with a stalled consumer.
MaxCyclesStalled == 1
\* Number of times the process is started.
MaxStartups == 2
\* Largest detection count the queries are tried on.
MaxTotal == 2
\* Last value of the wall clock (seconds).
MaxNow == 3
\* ... and by the specification with the producer's process.
MaxCyclesChannel == 1
\* Payloads the producer writes, and the pieces a document is written in.
MaxWrites == 2
JsonParts == 2
\* Buffer capacities.  The source sets 60, 180 and 200 (lines 62-64); the
\* model runs the same code with small capacities so that eviction happens.
LAT_WINDOW_MAX == 2
PERF_MAX == 2
RECENT_LOGS_MAX == 3

\* ------------------------------------------------------- program constants
STALE_JSON_S == 2
SECONDS_PER_DAY == 86400
\* CONF_THRESHOLD of the producer, in hundredths (src/main_app.py line 39).
CONF_THRESHOLD == 30

\* ------------------------------------------------------------ JSON values
Num(n) == [t |-> "num", v |-> n]
NaN == [t |-> "nan", v |-> 0]
Str == [t |-> "str", v |-> 0]
Null == [t |-> "null", v |-> 0]

TsNone == [k |-> "none", s |-> "", v |-> 0]
TsText(s) == [k |-> "text", s |-> s, v |-> 0]
TsIso(v) == [k |-> "iso", s |-> "", v |-> v]

BBox(x, y, w, h) == [t |-> "list", items |-> <<x, y, w, h>>]
Det(cls, bbox, conf) == [t |-> "dict", class |-> cls, bbox |-> bbox, confidence |-> conf]
NotADictDet == [t |-> "str", class |-> "", bbox |-> [t |-> "null", items |-> <<>>], confidence |-> Null]
Sys(cpu, mem) == [t |-> "dict", cpu_percent |-> cpu, memory_percent |-> mem]
NotADictSys == [t |-> "str", cpu_percent |-> Null, memory_percent |-> Null]
DetList(items) == [t |-> "list", items |-> items]
NotAListDets == [t |-> "str", items |-> <<>>]
Payload(ts, dets, lat, fps, sys) ==
    [t |-> "dict", timestamp |-> ts, detections |-> dets, latency_ms |-> lat,
     fps |-> fps, system |-> sys]

\* json.load failed (file absent, torn, undecodable): _safe_read_json gives None.
JSON_NONE == [Payload(TsNone, DetList(<<>>), Null, Null, Sys(Null, Null)) EXCEPT !.t = "None"]
\* A JSON document that is not an object.
JSON_LIST == [Payload(TsNone, DetList(<<>>), Null, Null, Sys(Null, Null)) EXCEPT !.t = "list"]

\* ------------------------------------------------------------- byte strings
NONE_BYTES == [img |-> "None", enc |-> 0, boxes |-> <<>>]
EMPTY_BYTES == [img |-> "", enc |-> 0, boxes |-> <<>>]
TORN_BYTES == [img |-> "torn", enc |-> 0, boxes |-> <<>>]
CAM_BYTES == [img |-> "cam", enc |-> 0, boxes |-> <<>>]

\* ------------------------------------------------------------------ inputs
\* What _safe_read_bytes can return: None (no file), b"" (a file of length
\* zero), bytes that do not decode, a decodable JPEG.  Spec reads the
\* zero-length file, SpecAllInputs the undecodable one.
Frames == {NONE_BYTES, EMPTY_BYTES, CAM_BYTES}
FramesTorn == {NONE_BYTES, TORN_BYTES, CAM_BYTES}

PersonOk(conf) == Det("person", BBox(Num(10), Num(20), Num(30), Num(40)), Num(conf))

\* The spec's scenario payload: one person, all fields numeric.
P_A == Payload(TsIso(1), DetList(<<PersonOk(87)>>), Num(42), Num(24), Sys(Num(12), Num(55)))
\* Malformed siblings around two valid detections, non-numeric scalars
\* (what the producer writes without psutil / on error: "N/A", {}).
P_B == Payload(TsIso(3),
               DetList(<<NotADictDet,
                         Det("car", BBox(Num(1), Num(2), Num(3), Num(4)), Num(90)),
                         Det("person", [t |-> "list", items |-> <<Num(1), Num(2), Num(3)>>], Num(80)),
                         Det("person", BBox(Num(1), Str, Num(3), Num(4)), Num(70)),
                         Det("person", BBox(Num(5), Num(6), Num(7), Num(8)), Str),
                         Det("person", [t |-> "null", items |-> <<>>], Num(60)),
                         PersonOk(50)>>),
               Str, Str, Sys(Null, Str))
\* Unparseable timestamp, detections not a list, system not a dict.
P_X == Payload(TsText("x"), NotAListDets, Num(7), Num(5), NotADictSys)
\* More detections than recent_logs holds, the first with a negative width.
P_Big == Payload(TsIso(0),
                 DetList([i \in 1..(RECENT_LOGS_MAX + 1) |->
                            IF i = 1 THEN Det("person", BBox(Num(5), Num(5), Num(-2), Num(4)), Num(1))
                            ELSE PersonOk(i)]),
                 Num(9), Num(30), Sys(Num(1), Num(2)))
\* Unparseable timestamp, a person whose confidence is NaN and a person
\* whose bbox has a NaN component.
P_NaN == Payload(TsText("y"),
                 DetList(<<PersonOk(10),
                           Det("person", BBox(Num(1), Num(1), Num(2), Num(2)), NaN),
                           Det("person", BBox(Num(1), NaN, Num(2), Num(2)), Num(20))>>),
                 Num(3), Num(3), Sys(Num(3), Num(3)))
\* A dict without a usable timestamp (absent, not a string).
P_NoTs == Payload(TsNone, DetList(<<PersonOk(33)>>), Num(1), Num(1), Sys(Num(1), Num(1)))
\* A dict whose timestamp is the empty string.
P_EmptyTs == Payload([k |-> "empty", s |-> "", v |-> 0], DetList(<<PersonOk(34)>>), Num(1), Num(1), Sys(Num(1), Num(1)))

\* The inputs of the specifications with request threads or store events.
FewFrames == {NONE_BYTES, CAM_BYTES}
FewPayloads == {JSON_NONE, P_A}

AllPayloads == {JSON_NONE, JSON_LIST, P_NoTs, P_EmptyTs, P_A, P_B, P_X, P_Big, P_NaN}
Payloads == {JSON_NONE, P_A, P_B, P_Big}

\* ----------------------------------------------------- collections.deque
\* Mutant: a list, which never evicts.
DequeAppendUnbounded(d, x, maxlen) == d \o <<x>>

\* deque(maxlen=n).append: a full deque drops its leftmost element.
DequeAppend(d, x, maxlen) ==
    IF Len(d) >= maxlen THEN Tail(d) \o <<x>> ELSE d \o <<x>>

\* Mutant: a full deque drops its leftmost (newest) element.
DequeAppendLeftEvictsFront(d, x, maxlen) ==
    IF Len(d) >= maxlen THEN <<x>> \o Tail(d) ELSE <<x>> \o d

\* deque(maxlen=n).appendleft: a full deque drops its rightmost element.
DequeAppendLeft(d, x, maxlen) ==
    IF Len(d) >= maxlen THEN <<x>> \o SubSeq(d, 1, Len(d) - 1) ELSE <<x>> \o d

\* Mutant: the batch is put at the front in its own order.
AppendLeftAllInBatchOrder(d, entries, maxlen) ==
    SubSeq(entries \o d, 1, IF Len(entries \o d) > maxlen THEN maxlen ELSE Len(entries \o d))

\* for entry in new_log_entries: recent_logs.appendleft(entry)
RECURSIVE AppendLeftAll(_, _, _)
AppendLeftAll(d, entries, maxlen) ==
    IF entries = <<>> THEN d
    ELSE AppendLeftAll(DequeAppendLeft(d, Head(entries), maxlen), Tail(entries), maxlen)

\* ---------------------------------------------------------------- utilities
\* float(x) raises for a non-numeric string (ValueError) and for None (TypeError).
FloatRaises(j) == j.t \in {"str", "null"}

\* try: float(x) / except Exception: 0.0
FloatOrZero(j) == IF FloatRaises(j) THEN Num(0) ELSE j

\* sysinfo.get(key, None) when sysinfo is a dict, else None; then
\* float(x) if x is not None else 0.0, in a try that defaults to 0.0.
SysFloat(sysinfo, key) ==
    IF sysinfo.t # "dict" THEN Num(0)
    ELSE FloatOrZero(IF key = "cpu" THEN sysinfo.cpu_percent ELSE sysinfo.memory_percent)

\* int(round(float(v))) raises for a non-number, and for NaN / Infinity.
IntRoundRaises(j) == j.t # "num"

\* datetime.fromisoformat(ts) succeeds or _parse_iso_datetime returns None.
ParseIsoDatetime(ts) == IF ts.k = "iso" THEN [ok |-> TRUE, v |-> ts.v] ELSE [ok |-> FALSE, v |-> 0]

\* strftime("%H:%M:%S"): the time of day.
Strftime(t) == t % SECONDS_PER_DAY

\* _time_hhmmss(ts): the timestamp's time of day, else the wall clock's.
TimeHhmmss(ts, clock) ==
    IF ts.k # "empty" /\ ParseIsoDatetime(ts).ok THEN Strftime(ParseIsoDatetime(ts).v)
    ELSE Strftime(clock)

\* _generate_no_signal_frame(): a fixed non-empty JPEG.
GenerateNoSignalFrame == [img |-> "nosignal", enc |-> 80, boxes |-> <<>>]

\* isinstance(ts, str) and ts
IsNonEmptyStr(ts) == ts.k \in {"text", "iso"}

\* Mutant: the threshold itself already counts as stale.
PayloadIsStaleAtThreshold(payload, clock) ==
    IF ~IsNonEmptyStr(payload.timestamp) THEN TRUE
    ELSE IF ~ParseIsoDatetime(payload.timestamp).ok THEN FALSE
    ELSE clock - ParseIsoDatetime(payload.timestamp).v >= STALE_JSON_S

\* _payload_is_stale(payload), the clock reading being `clock`.
PayloadIsStale(payload, clock) ==
    IF ~IsNonEmptyStr(payload.timestamp) THEN TRUE
    ELSE IF ~ParseIsoDatetime(payload.timestamp).ok THEN FALSE
    ELSE clock - ParseIsoDatetime(payload.timestamp).v > STALE_JSON_S

\* Line 297: payload is None or not isinstance(payload, dict) or _payload_is_stale(payload)
PayloadMissingOrStale(payload, clock) ==
    payload.t = "None" \/ payload.t # "dict" \/ PayloadIsStale(payload, clock)

\* payload.get("detections", []), replaced by [] when it is not a list.
DetectionsOf(payload) ==
    IF payload.detections.t = "list" THEN payload.detections.items ELSE <<>>

\* The guards shared by the overlay loop and the aggregation loop: the
\* detection is passed over (continue).
DetSkipped(det) ==
    \/ det.t # "dict"
    \/ det.class # "person"
    \/ ~(det.bbox.t = "list" /\ Len(det.bbox.items) = 4)
    \/ \E i \in 1..Len(det.bbox.items) : IntRoundRaises(det.bbox.items[i])

\* ------------------------------------------------------------------ overlay
\* Image.open(...).convert("RGB") fails on empty or torn bytes.
DecodeFails(jpeg) == jpeg.img \in {"", "torn"}

\* int(conf_f * 100) raises for NaN (ValueError) and Infinity (OverflowError).
LabelRaises(det) == FloatOrZero(det.confidence).t = "nan"

\* draw.rectangle([x, y, x + w, y + h]) with x + w < x or y + h < y: Pillow
\* from 9.5 on raises ValueError, earlier versions draw.
RectangleMayRaise(det) == det.bbox.items[3].v < 0 \/ det.bbox.items[4].v < 0

\* The boxes drawn for the detections that are not passed over.
RECURSIVE DrawnBoxes(_)
DrawnBoxes(dets) ==
    IF dets = <<>> THEN <<>>
    ELSE IF DetSkipped(Head(dets)) THEN DrawnBoxes(Tail(dets))
    ELSE <<[x |-> Head(dets).bbox.items[1].v, y |-> Head(dets).bbox.items[2].v,
            w |-> Head(dets).bbox.items[3].v, h |-> Head(dets).bbox.items[4].v,
            pct |-> FloatOrZero(Head(dets).confidence).v]>> \o DrawnBoxes(Tail(dets))

\* Some drawn detection makes the renderer raise whatever the Pillow version.
OverlayMustRaise(jpeg, payload) ==
    /\ ~DecodeFails(jpeg)
    /\ \E i \in 1..Len(DetectionsOf(payload)) :
          /\ ~DetSkipped(DetectionsOf(payload)[i])
          /\ LabelRaises(DetectionsOf(payload)[i])

\* Some drawn detection makes the renderer raise under some Pillow version.
OverlayMayRaise(jpeg, payload) ==
    /\ ~DecodeFails(jpeg)
    /\ \E i \in 1..Len(DetectionsOf(payload)) :
          /\ ~DetSkipped(DetectionsOf(payload)[i])
          /\ (LabelRaises(DetectionsOf(payload)[i]) \/ RectangleMayRaise(DetectionsOf(payload)[i]))

\* _overlay_detections(jpeg_bytes, payload) when it returns.
OverlayDetections(jpeg, payload) ==
    IF DecodeFails(jpeg) THEN jpeg
    ELSE [img |-> jpeg.img, enc |-> 85, boxes |-> DrawnBoxes(DetectionsOf(payload))]

\* -------------------------------------------------------------- aggregation
\* Mutant: the watermark is not compared.
ShouldProcessAlways(ts, watermark) == IsNonEmptyStr(ts)

\* Line 314: isinstance(ts, str) and ts and ts != last_payload_timestamp_processed
ShouldProcess(ts, watermark) == IsNonEmptyStr(ts) /\ ts # watermark

CSV_HEADER == [header |-> TRUE, ts |-> TsNone, conf |-> Num(0), bbox |-> <<0, 0, 0, 0>>,
               lat |-> Num(0), fps |-> Num(0), cpu |-> Num(0), mem |-> Num(0)]

\* Mutant: the first detection passed over ends the loop (break for continue).
RECURSIVE CollectDetectionsBreak(_, _, _, _, _, _, _)
CollectDetectionsBreak(dets, ts, time_str, lat, fps, cpu, mem) ==
    IF dets = <<>> \/ DetSkipped(Head(dets)) THEN [entries |-> <<>>, lines |-> <<>>, count |-> 0]
    ELSE LET det == Head(dets)
             rest == CollectDetectionsBreak(Tail(dets), ts, time_str, lat, fps, cpu, mem)
             conf_f == FloatOrZero(det.confidence)
         IN [entries |-> <<[time |-> time_str, class |-> "person",
                            confidence |-> conf_f, inference_time |-> lat]>> \o rest.entries,
             lines |-> <<[header |-> FALSE, ts |-> ts, conf |-> conf_f,
                          bbox |-> <<det.bbox.items[1].v, det.bbox.items[2].v,
                                     det.bbox.items[3].v, det.bbox.items[4].v>>,
                          lat |-> lat, fps |-> fps, cpu |-> cpu, mem |-> mem]>> \o rest.lines,
             count |-> 1 + rest.count]

\* The loop of lines 367-399 over the detections from index 1: the log
\* entries, the CSV lines and the count it builds.
RECURSIVE CollectDetections(_, _, _, _, _, _, _)
CollectDetections(dets, ts, time_str, lat, fps, cpu, mem) ==
    IF dets = <<>> THEN [entries |-> <<>>, lines |-> <<>>, count |-> 0]
    ELSE LET det == Head(dets)
             rest == CollectDetections(Tail(dets), ts, time_str, lat, fps, cpu, mem)
         IN IF DetSkipped(det) THEN rest
            ELSE LET conf_f == FloatOrZero(det.confidence)
                 IN [entries |-> <<[time |-> time_str, class |-> "person",
                                    confidence |-> conf_f, inference_time |-> lat]>>
                                 \o rest.entries,
                     lines |-> <<[header |-> FALSE, ts |-> ts, conf |-> conf_f,
                                  bbox |-> <<det.bbox.items[1].v, det.bbox.items[2].v,
                                             det.bbox.items[3].v, det.bbox.items[4].v>>,
                                  lat |-> lat, fps |-> fps, cpu |-> cpu, mem |-> mem]>>
                               \o rest.lines,
                     count |-> 1 + rest.count]

\* ------------------------------------------------------------ the producer
\* src/main_app.py: the rows of the engine's output become detections, the
\* detections a payload, the payload a file renamed into place.

\* decode_output(output): the rows <<x, y, w, h, conf, class>> whose
\* confidence reaches the threshold, as dicts (lines 178-196).
RECURSIVE DecodeOutput(_)
DecodeOutput(out) ==
    IF out = <<>> THEN <<>>
    ELSE IF Head(out)[5] < CONF_THRESHOLD THEN DecodeOutput(Tail(out))
    ELSE <<[class_id |-> Head(out)[6], confidence |-> Num(Head(out)[5]),
            bbox_xywh |-> BBox(Num(Head(out)[1]), Num(Head(out)[2]),
                               Num(Head(out)[3]), Num(Head(out)[4]))]>>
         \o DecodeOutput(Tail(out))

\* The engine's outputs tried: no row, a person (class 0) above the
\* threshold, a row below the threshold before a car (class 2) above it.
Outputs ==
    {<<>>,
     <<<<10, 20, 30, 40, 87, 0>>>>,
     <<<<1, 2, 3, 4, 10, 0>>, <<5, 6, 7, 8, 50, 2>>>>}

\* The payload of lines 234-243; without psutil both system values are "N/A".
MainPayload(ts, out, psutil) ==
    [timestamp |-> TsIso(ts), detections |-> DecodeOutput(out),
     latency_ms |-> Num(42), fps |-> Num(24),
     system |-> IF psutil THEN Sys(Num(12), Num(55)) ELSE Sys(Str, Str),
     error |-> ""]

\* The payload of lines 247-254, built when the frame or the engine raised.
ErrorPayload(ts) ==
    [timestamp |-> TsIso(ts), detections |-> <<>>, latency_ms |-> Str, fps |-> Str,
     system |-> Sys(Null, Null), error |-> "str(e)"]

\* What one iteration of the main loop can build at clock reading ts.
ProducerPayloads(ts) ==
    {MainPayload(ts, out, TRUE) : out \in Outputs}
       \cup {MainPayload(ts, <<>>, FALSE), ErrorPayload(ts)}

\* Mutant: the document is written in place.
TmpPathInPlace(path) == path

\* tmp = path + ".tmp" (line 64)
TmpPath(path) == "tmp"

\* json.dump(data, f): the text of the document, written piece by piece.
Serialize(data) == [i \in 1..JsonParts |-> [doc |-> data, part |-> i]]

\* d.get(key, default)
Get(d, key, default) == IF key \in DOMAIN d THEN d[key] ELSE default

\* A detection of the document as the updater's loops read it (lines
\* 204-217, 368-382): det.get("class"), det.get("bbox"), det.get("confidence").
LoadDet(d) ==
    Det(Get(d, "class", "None"), Get(d, "bbox", [t |-> "null", items |-> <<>>]),
        Get(d, "confidence", Null))

\* The document as the updater reads it: the keys it gets (lines 313-356).
LoadPayload(d) ==
    Payload(d.timestamp,
            DetList([i \in 1..Len(d.detections) |-> LoadDet(d.detections[i])]),
            d.latency_ms, d.fps, d.system)

\* json.load(f) in _safe_read_json: the document when the text is a whole
\* one, else it raises and None is returned (lines 108-110).
JsonLoad(text) ==
    IF text # <<>> /\ text = Serialize(text[1].doc) THEN LoadPayload(text[1].doc)
    ELSE JSON_NONE

\* ----------------------------------------------------------------- readers
\* The stream consumers connected to /video_feed, each served by a thread.
Streams == {"s1", "s2"}
\* The four query endpoints.
Endpoints == {"stats", "logs", "detection_stats", "performance_history"}

\* Mutant: every consumer is sent the placeholder.
StreamFrameAlwaysPlaceholder(cached) == GenerateNoSignalFrame

\* Line 448: cached_annotated_jpeg or _generate_no_signal_frame()
StreamFrame(cached) == IF cached = EMPTY_BYTES THEN GenerateNoSignalFrame ELSE cached

\* Mutant: the reader stores its fallback back into the cache.
CacheAfterStreamReadFilled(cached) == StreamFrame(cached)

\* Line 448 binds the local `frame`; generate() declares no global, so the
\* cache is as it was.
CacheAfterStreamRead(cached) == cached

\* Mutant: the yield is inside the with block.
HoldAcrossYield(holder) == holder

\* The with block of line 447 ends before the yield of line 450.
ReleaseBeforeYield(holder) == "free"

\* Mutant: the CSV append is inside the with block.
HoldAcrossAppend(holder) == holder

\* The with block of line 402 ends before the append of lines 413-415.
ReleaseBeforeAppend(holder) == "free"

\* sum(latency_window): NaN as soon as one value is NaN.
RECURSIVE SumFloats(_)
SumFloats(w) ==
    IF w = <<>> THEN Num(0)
    ELSE IF Head(w).t = "nan" \/ SumFloats(Tail(w)).t = "nan" THEN NaN
    ELSE Num(Head(w).v + SumFloats(Tail(w)).v)

\* n / d rounded to the nearest integer; a tie, which a binary float hardly
\* ever is, to the even one.
RoundHalfEven(n, d) ==
    LET fl == n \div d
        r == n % d
    IN IF 2 * r < d THEN fl
       ELSE IF 2 * r > d THEN fl + 1
       ELSE IF fl % 2 = 0 THEN fl ELSE fl + 1

\* round(float(num / den), 2), num / den being in thousandths: the nearest
\* hundredth, again in thousandths.  round(nan, 2) is nan.
Round2(t, num, den) ==
    IF t = "nan" THEN NaN ELSE Num(10 * RoundHalfEven(num, den * 10))

\* Mutant: the window's emptiness is not tested and the division fails.
AvgInferenceTimeNoGuard(w) ==
    IF w = <<>> THEN [t |-> "ZeroDivisionError", v |-> 0]
    ELSE Round2(SumFloats(w).t, SumFloats(w).v, Len(w))

\* Lines 461 and 464: (sum / len) if latency_window else 0.0, rounded.
AvgInferenceTime(w) ==
    IF w = <<>> THEN Round2("num", 0, 1)
    ELSE Round2(SumFloats(w).t, SumFloats(w).v, Len(w))

NoResponse ==
    [kind |-> "-", fps |-> Null, avg_inference_time |-> Null, count |-> 0, list |-> <<>>]

\* The JSON body each endpoint returns (lines 462-466, 472, 478, 484).
Respond(kind, fps, window, total, logs, perf) ==
    IF kind = "stats"
    THEN [kind |-> kind, fps |-> Round2(fps.t, fps.v, 1),
          avg_inference_time |-> AvgInferenceTime(window), count |-> total, list |-> <<>>]
    ELSE IF kind = "logs"
    THEN [NoResponse EXCEPT !.kind = kind, !.list = logs]
    ELSE IF kind = "detection_stats"
    THEN [NoResponse EXCEPT !.kind = kind, !.count = total]
    ELSE [NoResponse EXCEPT !.kind = kind, !.list = perf]

\* -------------------------------------------------------------------- state
VARIABLES
    \* module-level cached state (lines 77-89)
    state_lock,                        \* "free" or the thread holding it
    cached_annotated_jpeg,
    cached_last_frame_ok,
    recent_logs,
    performance_history,
    latency_window,
    total_detections,
    last_fps,
    last_payload_timestamp_processed,
    \* the durable store logs/predictions_log.csv: its lines (<<>>: absent or empty)
    csv_log,
    \* the wall clock, datetime.now()
    now,
    \* _background_updater: position and locals
    pc,
    frame_bytes,
    payload,
    branch,                            \* which of the three cases the cycle took
    clock_read,                        \* the clock as _payload_is_stale read it
    annotated,
    lat_ms_f,
    cpu_f,
    mem_f,
    csv_lines,
    new_log_entries,
    new_detections_count,
    csv_failed,                        \* the append of this cycle raised
    cycles,                            \* cycles completed
    \* history, written but never read by the program's actions
    prev_cycle,                        \* branch and timestamp of the previous cycle
    at_cycle_start,                    \* the aggregate state when the cycle began
    applied,                           \* timestamps aggregated, in order
    lat_hist,                          \* every value pushed to latency_window
    perf_hist,                         \* every sample pushed to performance_history
    log_hist,                          \* every entry inserted into recent_logs
    \* the request threads of the Flask server (threaded=True, line 492)
    stream_pc,                         \* video_feed.generate of each consumer: position
    stream_frame,                      \* ... and its local `frame`
    query_pc,                          \* the /api/* request in progress: position
    query_kind,                        \* ... which endpoint
    response,                          \* ... and the last response sent
    \* the number of times the process was started
    startups,
    \* the updater's place in the loop of line 409, and (history)
    \* that some append to the durable store raised in this process
    entry_i,
    append_failed,
    \* input channel B: the directory entries of SHARED_JSON_PATH and of
    \* SHARED_JSON_PATH + ".tmp" (0: no such file) and the files' contents
    paths,
    inodes,
    \* main() of the producer (src/main_app.py): position and locals
    producer_pc,
    producer_payload,
    producer_f,                        \* the file write_json_atomic has open
    writes,                            \* payloads written
    \* _safe_read_json of the updater: position, the file it has open, the text read
    json_pc,
    json_f,
    json_buf,
    \* history: the payloads renamed into place, and how many there were
    \* when the read in progress opened the file
    published,
    published_at_open

shared == <<state_lock, cached_annotated_jpeg, cached_last_frame_ok, recent_logs,
            performance_history, latency_window, total_detections, last_fps,
            last_payload_timestamp_processed, csv_log>>
locals == <<frame_bytes, payload, branch, clock_read, annotated, lat_ms_f, cpu_f, mem_f,
            csv_lines, new_log_entries, new_detections_count, csv_failed>>
history == <<prev_cycle, at_cycle_start, applied, lat_hist, perf_hist, log_hist>>
consumers == <<stream_pc, stream_frame, query_pc, query_kind, response>>
steps == <<entry_i, append_failed>>
channel == <<paths, inodes, producer_pc, producer_payload, producer_f, writes,
             json_pc, json_f, json_buf, published, published_at_open>>
others == <<consumers, startups, steps, channel>>
vars == <<shared, now, pc, locals, cycles, history, others>>

\* The aggregate state of the cache, the watermark and the durable log.
Aggregates ==
    [total_detections |-> total_detections, last_fps |-> last_fps,
     latency_window |-> latency_window, performance_history |-> performance_history,
     recent_logs |-> recent_logs, watermark |-> last_payload_timestamp_processed,
     csv_log |-> csv_log]

\* Input channel B before the producer has written: neither file exists.
InitChannel ==
    /\ paths = [f \in {"json", "tmp"} |-> 0]
    /\ inodes = <<>>
    /\ producer_pc = "loop"
    /\ producer_payload = ErrorPayload(0)
    /\ producer_f = 0
    /\ writes = 0
    /\ json_pc = "idle"
    /\ json_f = 0
    /\ json_buf = <<>>
    /\ published = <<>>
    /\ published_at_open = 0

NoLocals ==
    /\ frame_bytes = NONE_BYTES /\ payload = JSON_NONE /\ branch = "-" /\ clock_read = 0
    /\ annotated = NONE_BYTES /\ lat_ms_f = Num(0) /\ cpu_f = Num(0) /\ mem_f = Num(0)
    /\ csv_lines = <<>> /\ new_log_entries = <<>> /\ new_detections_count = 0
    /\ csv_failed = FALSE

\* The module after import (lines 77-89), the updater thread created and
\* not yet run; the durable store absent.
Init ==
    /\ state_lock = "free"
    /\ cached_annotated_jpeg = EMPTY_BYTES
    /\ cached_last_frame_ok = FALSE
    /\ recent_logs = <<>>
    /\ performance_history = <<>>
    /\ latency_window = <<>>
    /\ total_detections = 0
    /\ last_fps = Num(0)
    /\ last_payload_timestamp_processed = TsNone
    /\ csv_log = <<>>
    /\ now = 0
    /\ pc = "start"
    /\ NoLocals
    /\ cycles = 0
    /\ prev_cycle = [branch |-> "-", ts |-> TsNone, csv_failed |-> FALSE]
    /\ at_cycle_start = Aggregates
    /\ applied = <<>>
    /\ lat_hist = <<>>
    /\ perf_hist = <<>>
    /\ log_hist = <<>>
    /\ stream_pc = [s \in Streams |-> "off"]
    /\ stream_frame = [s \in Streams |-> NONE_BYTES]
    /\ query_pc = "idle"
    /\ query_kind = "-"
    /\ response = NoResponse
    /\ startups = 1
    /\ entry_i = 0 /\ append_failed = FALSE
    /\ InitChannel

\* ------------------------------------------------------------------ actions
\* The wall clock advances.  The program reads it in _payload_is_stale
\* (line 255) and, for a timestamp that does not parse, in _time_hhmmss
\* (line 138), so it is advanced right before those reads: a tick anywhere
\* else is seen at the next read.
Tick ==
    /\ \/ pc = "render"
       \/ pc = "collect" /\ ~ParseIsoDatetime(payload.timestamp).ok
    /\ now < MaxNow
    /\ now' = now + 1
    /\ UNCHANGED <<shared, pc, locals, cycles, history>>
    /\ UNCHANGED others

\* _ensure_csv_header() returns: the header is written to an absent or empty store.
EnsureCsvHeader ==
    /\ pc = "start"
    /\ csv_log' = IF csv_log = <<>> THEN <<CSV_HEADER>> ELSE csv_log
    /\ pc' = "init_lock"
    /\ UNCHANGED <<state_lock, cached_annotated_jpeg, cached_last_frame_ok, recent_logs,
                   performance_history, latency_window, total_detections, last_fps,
                   last_payload_timestamp_processed, now, locals, cycles, history>>
    /\ UNCHANGED others

\* _ensure_csv_header() raises (mkdir or write_text fails): nothing in
\* _background_updater catches it and the thread ends.
EnsureCsvHeaderRaises ==
    /\ pc = "start"
    /\ pc' = "dead"
    /\ UNCHANGED <<shared, now, locals, cycles, history>>
    /\ UNCHANGED others

\* with state_lock: (line 279)
InitAcquire ==
    /\ pc = "init_lock"
    /\ state_lock = "free"
    /\ state_lock' = "updater"
    /\ pc' = "init_cache"
    /\ UNCHANGED <<cached_annotated_jpeg, cached_last_frame_ok, recent_logs,
                   performance_history, latency_window, total_detections, last_fps,
                   last_payload_timestamp_processed, csv_log, now, locals, cycles, history>>
    /\ UNCHANGED others

\* Lines 280-281, and the lock released.
InitCache ==
    /\ pc = "init_cache"
    /\ cached_annotated_jpeg' = GenerateNoSignalFrame
    /\ cached_last_frame_ok' = FALSE
    /\ state_lock' = "free"
    /\ pc' = "read"
    /\ at_cycle_start' = Aggregates
    /\ UNCHANGED <<recent_logs, performance_history, latency_window, total_detections,
                   last_fps, last_payload_timestamp_processed, csv_log, now, locals,
                   cycles, prev_cycle, applied, lat_hist, perf_hist, log_hist>>
    /\ UNCHANGED others

\* Lines 284-285: both resources are read; a failed read gives None.
ReadInputs(frames, payloads) ==
    /\ pc = "read"
    /\ \E f \in frames, p \in payloads :
          /\ frame_bytes' = f
          /\ payload' = p
    /\ pc' = "render"
    /\ UNCHANGED <<shared, now, branch, clock_read, annotated, lat_ms_f, cpu_f, mem_f,
                   csv_lines, new_log_entries, new_detections_count, csv_failed,
                   cycles, history>>
    /\ UNCHANGED others

\* Lines 288-289: no frame.
RenderNoSignal ==
    /\ pc = "render"
    /\ frame_bytes = NONE_BYTES
    /\ annotated' = GenerateNoSignalFrame
    /\ branch' = "nosignal"
    /\ pc' = "cache_lock"
    /\ UNCHANGED <<shared, now, frame_bytes, payload, clock_read, lat_ms_f, cpu_f, mem_f,
                   csv_lines, new_log_entries, new_detections_count, csv_failed,
                   cycles, history>>
    /\ UNCHANGED others

\* Line 297 holds: the raw frame will be cached.
RenderRaw ==
    /\ pc = "render"
    /\ frame_bytes # NONE_BYTES
    /\ PayloadMissingOrStale(payload, now)
    /\ clock_read' = now
    /\ branch' = "raw"
    /\ pc' = "cache_lock"
    /\ UNCHANGED <<shared, now, frame_bytes, payload, annotated, lat_ms_f, cpu_f, mem_f,
                   csv_lines, new_log_entries, new_detections_count, csv_failed,
                   cycles, history>>
    /\ UNCHANGED others

\* Line 305: the overlay is rendered.
RenderOverlay ==
    /\ pc = "render"
    /\ frame_bytes # NONE_BYTES
    /\ ~PayloadMissingOrStale(payload, now)
    /\ ~OverlayMustRaise(frame_bytes, payload)
    /\ clock_read' = now
    /\ annotated' = OverlayDetections(frame_bytes, payload)
    /\ branch' = "overlay"
    /\ pc' = "cache_lock"
    /\ UNCHANGED <<shared, now, frame_bytes, payload, lat_ms_f, cpu_f, mem_f,
                   csv_lines, new_log_entries, new_detections_count, csv_failed,
                   cycles, history>>
    /\ UNCHANGED others

\* Line 305: _overlay_detections raises while drawing; nothing catches it
\* and the thread ends.
RenderRaises ==
    /\ pc = "render"
    /\ frame_bytes # NONE_BYTES
    /\ ~PayloadMissingOrStale(payload, now)
    /\ OverlayMayRaise(frame_bytes, payload)
    /\ clock_read' = now
    /\ pc' = "dead"
    /\ UNCHANGED <<shared, now, frame_bytes, payload, branch, annotated, lat_ms_f, cpu_f,
                   mem_f, csv_lines, new_log_entries, new_detections_count, csv_failed,
                   cycles, history>>
    /\ UNCHANGED others

\* with state_lock: (lines 290, 298, 308)
CacheAcquire ==
    /\ pc = "cache_lock"
    /\ state_lock = "free"
    /\ state_lock' = "updater"
    /\ pc' = "cache_write"
    /\ UNCHANGED <<cached_annotated_jpeg, cached_last_frame_ok, recent_logs,
                   performance_history, latency_window, total_detections, last_fps,
                   last_payload_timestamp_processed, csv_log, now, locals, cycles, history>>
    /\ UNCHANGED others

\* Mutant: the raw-frame case caches the annotated local as well.
FrameToCacheAlwaysAnnotated(br, frame, ann) == ann

\* What the cycle caches: lines 291, 299, 309.
FrameToCache(br, frame, ann) == IF br = "raw" THEN frame ELSE ann

\* Mutant: the flag is set in the no-frame case as well.
FrameOkToCacheAlways(br) == TRUE

\* Lines 292, 300, 310.
FrameOkToCache(br) == br # "nosignal"

\* Mutant: the raw-frame case lacks its continue.
AfterCacheWriteNoContinue(br) == IF br = "nosignal" THEN "sleep" ELSE "dedup"

\* After the cache write: sleep and continue (lines 293-294, 301-302), or go
\* on to the aggregation (line 312).
AfterCacheWrite(br) == IF br = "overlay" THEN "dedup" ELSE "sleep"

\* The body of the with block, and the lock released.
CacheWrite ==
    /\ pc = "cache_write"
    /\ cached_annotated_jpeg' = FrameToCache(branch, frame_bytes, annotated)
    /\ cached_last_frame_ok' = FrameOkToCache(branch)
    /\ state_lock' = "free"
    /\ pc' = AfterCacheWrite(branch)
    /\ UNCHANGED <<recent_logs, performance_history, latency_window, total_detections,
                   last_fps, last_payload_timestamp_processed, csv_log, now, locals,
                   cycles, history>>
    /\ UNCHANGED others

\* Lines 313-329: the watermark test; a new timestamp advances the
\* watermark and sets last_fps (no lock is taken for either).
Dedup ==
    /\ pc = "dedup"
    /\ IF ShouldProcess(payload.timestamp, last_payload_timestamp_processed)
       THEN /\ last_payload_timestamp_processed' = payload.timestamp
            /\ last_fps' = FloatOrZero(payload.fps)
            /\ lat_ms_f' = FloatOrZero(payload.latency_ms)
            /\ applied' = Append(applied, payload.timestamp)
            /\ pc' = "lat_lock"
       ELSE /\ UNCHANGED <<last_payload_timestamp_processed, last_fps, lat_ms_f, applied>>
            /\ pc' = "sleep"
    /\ UNCHANGED <<state_lock, cached_annotated_jpeg, cached_last_frame_ok, recent_logs,
                   performance_history, latency_window, total_detections, csv_log, now,
                   frame_bytes, payload, branch, clock_read, annotated, cpu_f, mem_f,
                   csv_lines, new_log_entries, new_detections_count, csv_failed, cycles,
                   prev_cycle, at_cycle_start, lat_hist, perf_hist, log_hist>>
    /\ UNCHANGED others

\* with state_lock: (line 331)
LatAcquire ==
    /\ pc = "lat_lock"
    /\ state_lock = "free"
    /\ state_lock' = "updater"
    /\ pc' = "lat_push"
    /\ UNCHANGED <<cached_annotated_jpeg, cached_last_frame_ok, recent_logs,
                   performance_history, latency_window, total_detections, last_fps,
                   last_payload_timestamp_processed, csv_log, now, locals, cycles, history>>
    /\ UNCHANGED others

\* Line 332 and the lock released; then lines 335-350 (locals only).
LatPush ==
    /\ pc = "lat_push"
    /\ latency_window' = DequeAppend(latency_window, lat_ms_f, LAT_WINDOW_MAX)
    /\ lat_hist' = Append(lat_hist, lat_ms_f)
    /\ state_lock' = "free"
    /\ cpu_f' = SysFloat(payload.system, "cpu")
    /\ mem_f' = SysFloat(payload.system, "memory")
    /\ pc' = "perf_lock"
    /\ UNCHANGED <<cached_annotated_jpeg, cached_last_frame_ok, recent_logs,
                   performance_history, total_detections, last_fps,
                   last_payload_timestamp_processed, csv_log, now,
                   frame_bytes, payload, branch, clock_read, annotated, lat_ms_f,
                   csv_lines, new_log_entries, new_detections_count, csv_failed, cycles,
                   prev_cycle, at_cycle_start, applied, perf_hist, log_hist>>
    /\ UNCHANGED others

\* with state_lock: (line 352)
PerfAcquire ==
    /\ pc = "perf_lock"
    /\ state_lock = "free"
    /\ state_lock' = "updater"
    /\ pc' = "perf_push"
    /\ UNCHANGED <<cached_annotated_jpeg, cached_last_frame_ok, recent_logs,
                   performance_history, latency_window, total_detections, last_fps,
                   last_payload_timestamp_processed, csv_log, now, locals, cycles, history>>
    /\ UNCHANGED others

\* Line 353 and the lock released.
PerfPush ==
    /\ pc = "perf_push"
    /\ performance_history' =
          DequeAppend(performance_history, [cpu |-> cpu_f, memory |-> mem_f], PERF_MAX)
    /\ perf_hist' = Append(perf_hist, [cpu |-> cpu_f, memory |-> mem_f])
    /\ state_lock' = "free"
    /\ pc' = "collect"
    /\ UNCHANGED <<cached_annotated_jpeg, cached_last_frame_ok, recent_logs,
                   latency_window, total_detections, last_fps,
                   last_payload_timestamp_processed, csv_log, now, locals, cycles,
                   prev_cycle, at_cycle_start, applied, lat_hist, log_hist>>
    /\ UNCHANGED others

\* Lines 356-401: the batch of log entries and CSV lines is built from the
\* detections (locals only; _time_hhmmss may read the clock).
Collect ==
    /\ pc = "collect"
    /\ LET batch == CollectDetections(DetectionsOf(payload), payload.timestamp,
                                      TimeHhmmss(payload.timestamp, now),
                                      lat_ms_f, last_fps, cpu_f, mem_f)
       IN /\ new_log_entries' = batch.entries
          /\ csv_lines' = batch.lines
          /\ new_detections_count' = batch.count
          /\ pc' = IF batch.count > 0 THEN "logs_lock" ELSE "sleep"
    /\ UNCHANGED <<shared, now, frame_bytes, payload, branch, clock_read, annotated,
                   lat_ms_f, cpu_f, mem_f, csv_failed, cycles, history>>
    /\ UNCHANGED others

\* Mutant: the counter counts the payload, not its detections.
CountAfterBatchByOne(total, count) == total + 1

\* total_detections += total_detections_update (lines 404-407)
CountAfterBatch(total, count) == total + count

\* with state_lock: (line 402)
LogsAcquire ==
    /\ pc = "logs_lock"
    /\ state_lock = "free"
    /\ state_lock' = "updater"
    /\ pc' = "logs_update"
    /\ UNCHANGED <<cached_annotated_jpeg, cached_last_frame_ok, recent_logs,
                   performance_history, latency_window, total_detections, last_fps,
                   last_payload_timestamp_processed, csv_log, now, locals, cycles, history>>
    /\ UNCHANGED others

\* Lines 404-410 and the lock released.
LogsUpdate ==
    /\ pc = "logs_update"
    /\ total_detections' = CountAfterBatch(total_detections, new_detections_count)
    /\ recent_logs' = AppendLeftAll(recent_logs, new_log_entries, RECENT_LOGS_MAX)
    /\ log_hist' = log_hist \o new_log_entries
    /\ state_lock' = ReleaseBeforeAppend(state_lock)
    /\ pc' = "csv_append"
    /\ UNCHANGED <<cached_annotated_jpeg, cached_last_frame_ok, performance_history,
                   latency_window, last_fps, last_payload_timestamp_processed, csv_log,
                   now, locals, cycles, prev_cycle, at_cycle_start, applied, lat_hist,
                   perf_hist>>
    /\ UNCHANGED others

\* Lines 413-415: the batch is appended to the durable store.
CsvAppend ==
    /\ pc = "csv_append"
    /\ csv_log' = csv_log \o csv_lines
    /\ pc' = "sleep"
    /\ UNCHANGED <<state_lock, cached_annotated_jpeg, cached_last_frame_ok, recent_logs,
                   performance_history, latency_window, total_detections, last_fps,
                   last_payload_timestamp_processed, now, locals, cycles, history>>
    /\ UNCHANGED others

\* Mutant: the exception of the append is not caught.
OnAppendErrorPropagates == "dead"

\* except Exception: pass (lines 416-418), then the sleep of line 420.
OnAppendError == "sleep"

\* Lines 413-418: the append raises (the store cannot be opened) and the
\* exception is dropped.
CsvAppendRaises ==
    /\ pc = "csv_append"
    /\ csv_failed' = TRUE
    /\ append_failed' = TRUE
    /\ pc' = OnAppendError
    /\ UNCHANGED <<shared, now, frame_bytes, payload, branch, clock_read, annotated,
                   lat_ms_f, cpu_f, mem_f, csv_lines, new_log_entries,
                   new_detections_count, cycles, history>>
    /\ UNCHANGED <<consumers, startups, entry_i, channel>>

\* time.sleep(UPDATER_SLEEP) (lines 293, 301, 420) and the next iteration.
Sleep(max_cycles) ==
    /\ pc = "sleep"
    /\ cycles < max_cycles
    /\ cycles' = cycles + 1
    /\ pc' = "read"
    /\ frame_bytes' = NONE_BYTES /\ payload' = JSON_NONE /\ branch' = "-"
    /\ clock_read' = 0 /\ annotated' = NONE_BYTES /\ lat_ms_f' = Num(0)
    /\ cpu_f' = Num(0) /\ mem_f' = Num(0) /\ csv_lines' = <<>>
    /\ new_log_entries' = <<>> /\ new_detections_count' = 0 /\ csv_failed' = FALSE
    /\ prev_cycle' = [branch |-> branch, ts |-> payload.timestamp, csv_failed |-> csv_failed]
    /\ at_cycle_start' = Aggregates
    /\ UNCHANGED <<shared, now, applied, lat_hist, perf_hist, log_hist>>
    /\ UNCHANGED others

\* ---------------------------------------------------------- request threads
\* A consumer requests /video_feed: generate() starts (lines 444-446).
StreamConnect(s) ==
    /\ stream_pc[s] = "off"
    /\ stream_pc' = [stream_pc EXCEPT ![s] = "lock"]
    /\ UNCHANGED <<shared, now, pc, locals, cycles, history, stream_frame, query_pc,
                   query_kind, response, startups, steps, channel>>

\* with state_lock: (line 447)
StreamAcquire(s) ==
    /\ stream_pc[s] = "lock"
    /\ state_lock = "free"
    /\ state_lock' = s
    /\ stream_pc' = [stream_pc EXCEPT ![s] = "read"]
    /\ UNCHANGED <<cached_annotated_jpeg, cached_last_frame_ok, recent_logs,
                   performance_history, latency_window, total_detections, last_fps,
                   last_payload_timestamp_processed, csv_log, now, pc, locals, cycles,
                   history, stream_frame, query_pc, query_kind, response, startups, steps, channel>>

\* Line 448, and the end of the with block.
StreamRead(s) ==
    /\ stream_pc[s] = "read"
    /\ stream_frame' = [stream_frame EXCEPT ![s] = StreamFrame(cached_annotated_jpeg)]
    /\ cached_annotated_jpeg' = CacheAfterStreamRead(cached_annotated_jpeg)
    /\ state_lock' = ReleaseBeforeYield(state_lock)
    /\ stream_pc' = [stream_pc EXCEPT ![s] = "send"]
    /\ UNCHANGED <<cached_last_frame_ok, recent_logs, performance_history, latency_window,
                   total_detections, last_fps, last_payload_timestamp_processed, csv_log,
                   now, pc, locals, cycles, history, query_pc, query_kind, response,
                   startups, steps, channel>>

\* Lines 450-453: the consumer takes the frame, the generator resumes, sleeps
\* for `delay` and begins its next iteration.  A consumer that stalls never
\* takes this step.
StreamSend(s) ==
    /\ stream_pc[s] = "send"
    /\ state_lock' = IF state_lock = s THEN "free" ELSE state_lock
    /\ stream_pc' = [stream_pc EXCEPT ![s] = "lock"]
    /\ UNCHANGED <<cached_annotated_jpeg, cached_last_frame_ok, recent_logs,
                   performance_history, latency_window, total_detections, last_fps,
                   last_payload_timestamp_processed, csv_log, now, pc, locals, cycles,
                   history, stream_frame, query_pc, query_kind, response, startups, steps, channel>>

\* The consumer disconnects: the generator is closed at its yield (line 450).
StreamDisconnect(s) ==
    /\ stream_pc[s] = "send"
    /\ state_lock' = IF state_lock = s THEN "free" ELSE state_lock
    /\ stream_pc' = [stream_pc EXCEPT ![s] = "off"]
    /\ stream_frame' = [stream_frame EXCEPT ![s] = NONE_BYTES]
    /\ UNCHANGED <<cached_annotated_jpeg, cached_last_frame_ok, recent_logs,
                   performance_history, latency_window, total_detections, last_fps,
                   last_payload_timestamp_processed, csv_log, now, pc, locals, cycles,
                   history, query_pc, query_kind, response, startups, steps, channel>>

\* A request for one of the /api/* endpoints arrives (lines 458-484).
QueryArrive(kind) ==
    /\ query_pc = "idle"
    /\ query_pc' = "lock"
    /\ query_kind' = kind
    /\ response' = NoResponse
    /\ UNCHANGED <<shared, now, pc, locals, cycles, history, stream_pc, stream_frame,
                   startups, steps, channel>>

\* with state_lock: (lines 460, 471, 477, 483)
QueryAcquire ==
    /\ query_pc = "lock"
    /\ state_lock = "free"
    /\ state_lock' = "query"
    /\ query_pc' = "read"
    /\ UNCHANGED <<cached_annotated_jpeg, cached_last_frame_ok, recent_logs,
                   performance_history, latency_window, total_detections, last_fps,
                   last_payload_timestamp_processed, csv_log, now, pc, locals, cycles,
                   history, stream_pc, stream_frame, query_kind, response, startups, steps, channel>>

\* The body of the with block: the response is built from the cached state
\* and returned, the lock released.
QueryRespond ==
    /\ query_pc = "read"
    /\ response' = Respond(query_kind, last_fps, latency_window, total_detections,
                           recent_logs, performance_history)
    /\ state_lock' = "free"
    /\ query_pc' = "idle"
    /\ UNCHANGED <<cached_annotated_jpeg, cached_last_frame_ok, recent_logs,
                   performance_history, latency_window, total_detections, last_fps,
                   last_payload_timestamp_processed, csv_log, now, pc, locals, cycles,
                   history, stream_pc, stream_frame, query_kind, startups, steps, channel>>

\* The steps of the request threads.
ReaderStep ==
    \/ \E s \in Streams : StreamConnect(s)
    \/ \E s \in Streams : StreamAcquire(s)
    \/ \E s \in Streams : StreamRead(s)
    \/ \E s \in Streams : StreamSend(s)
    \/ \E s \in Streams : StreamDisconnect(s)
    \/ \E kind \in Endpoints : QueryArrive(kind)
    \/ QueryAcquire
    \/ QueryRespond

\* The steps of the updater thread that neither read the inputs nor sleep,
\* first those in which nothing is raised.
UpdaterRuns ==
    \/ EnsureCsvHeader
    \/ InitAcquire
    \/ InitCache
    \/ RenderNoSignal
    \/ RenderRaw
    \/ RenderOverlay
    \/ CacheAcquire
    \/ CacheWrite
    \/ Dedup
    \/ LatAcquire
    \/ LatPush
    \/ PerfAcquire
    \/ PerfPush
    \/ Collect
    \/ LogsAcquire
    \/ LogsUpdate
    \/ CsvAppend

UpdaterStep ==
    \/ UpdaterRuns
    \/ EnsureCsvHeaderRaises
    \/ RenderRaises
    \/ CsvAppendRaises

Next ==
    \/ Tick
    \/ UpdaterStep
    \/ ReadInputs(Frames, Payloads)
    \/ Sleep(MaxCycles)

Spec == Init /\ [][Next]_vars

NextAllInputs ==
    \/ Tick
    \/ UpdaterStep
    \/ ReadInputs(FramesTorn, AllPayloads)
    \/ Sleep(MaxCyclesAllInputs)

\* The same program over every kind of payload, for fewer cycles.
SpecAllInputs == Init /\ [][NextAllInputs]_vars

\* The updater thread, nothing raised, beside the request threads.
UpdaterFew ==
    \/ UpdaterRuns
    \/ ReadInputs(FewFrames, FewPayloads)
    \/ Sleep(MaxCyclesFew)

NextReaders ==
    \/ UpdaterFew
    \/ ReaderStep

SpecReaders == Init /\ [][NextReaders]_vars

\* One consumer, s1, stalls: it never takes the frame it was sent.
UpdaterStalled ==
    \/ UpdaterRuns
    \/ ReadInputs(FewFrames, FewPayloads)
    \/ Sleep(MaxCyclesStalled)

ReaderStalled ==
    \/ \E s \in Streams : StreamConnect(s)
    \/ \E s \in Streams : StreamAcquire(s)
    \/ \E s \in Streams : StreamRead(s)
    \/ StreamSend("s2")
    \/ QueryArrive("stats")
    \/ QueryAcquire
    \/ QueryRespond

NextStalled ==
    \/ UpdaterStalled
    \/ ReaderStalled

\* Scheduling: a thread that can take a step again and again takes one,
\* the updater (daemon thread, line 424) and the request threads that
\* are after the lock or hold it.  Nothing makes a consumer take its frame
\* or arrive.
SpecStalled ==
    /\ Init /\ [][NextStalled]_vars
    /\ SF_vars(UpdaterStalled)
    /\ \A s \in Streams : SF_vars(StreamAcquire(s) \/ StreamRead(s))
    /\ SF_vars(QueryAcquire \/ QueryRespond)

\* logs/predictions_log.csv is removed or truncated from outside.
StoreRemoved ==
    /\ csv_log # <<>>
    /\ csv_log' = <<>>
    /\ UNCHANGED <<state_lock, cached_annotated_jpeg, cached_last_frame_ok, recent_logs,
                   performance_history, latency_window, total_detections, last_fps,
                   last_payload_timestamp_processed, now, pc, locals, cycles, history,
                   others>>

\* The process ends and is started again: the module is imported anew
\* (lines 77-89, 424-425); the store is what it was.
Restart ==
    /\ startups < MaxStartups
    /\ startups' = startups + 1
    /\ state_lock' = "free"
    /\ cached_annotated_jpeg' = EMPTY_BYTES
    /\ cached_last_frame_ok' = FALSE
    /\ recent_logs' = <<>>
    /\ performance_history' = <<>>
    /\ latency_window' = <<>>
    /\ total_detections' = 0
    /\ last_fps' = Num(0)
    /\ last_payload_timestamp_processed' = TsNone
    /\ pc' = "start"
    /\ frame_bytes' = NONE_BYTES /\ payload' = JSON_NONE /\ branch' = "-"
    /\ clock_read' = 0 /\ annotated' = NONE_BYTES /\ lat_ms_f' = Num(0)
    /\ cpu_f' = Num(0) /\ mem_f' = Num(0) /\ csv_lines' = <<>>
    /\ new_log_entries' = <<>> /\ new_detections_count' = 0 /\ csv_failed' = FALSE
    /\ cycles' = 0
    /\ prev_cycle' = [branch |-> "-", ts |-> TsNone, csv_failed |-> FALSE]
    /\ at_cycle_start' = [total_detections |-> 0, last_fps |-> Num(0),
                          latency_window |-> <<>>, performance_history |-> <<>>,
                          recent_logs |-> <<>>, watermark |-> TsNone, csv_log |-> csv_log]
    /\ applied' = <<>> /\ lat_hist' = <<>> /\ perf_hist' = <<>> /\ log_hist' = <<>>
    /\ entry_i' = 0 /\ append_failed' = FALSE
    /\ UNCHANGED <<csv_log, now, consumers, channel>>

\* The cached state the queries are tried on: any window of latencies
\* within the capacity, any rate, any count; the updater at its sleep.
LatencyValues == {Num(0), Num(9), Num(42), NaN}
Windows == UNION {[1..n -> LatencyValues] : n \in 0..LAT_WINDOW_MAX}

InitQueries ==
    /\ state_lock = "free"
    /\ cached_annotated_jpeg = GenerateNoSignalFrame
    /\ cached_last_frame_ok = FALSE
    /\ recent_logs = <<>>
    /\ performance_history = <<>>
    /\ latency_window \in Windows
    /\ total_detections \in 0..MaxTotal
    /\ last_fps \in {Num(0), Num(24), Num(23976), NaN}
    /\ last_payload_timestamp_processed = TsNone
    /\ csv_log = <<CSV_HEADER>>
    /\ now = 0
    /\ pc = "sleep"
    /\ NoLocals
    /\ cycles = 0
    /\ prev_cycle = [branch |-> "-", ts |-> TsNone, csv_failed |-> FALSE]
    /\ at_cycle_start = Aggregates
    /\ applied = <<>>
    /\ lat_hist = latency_window
    /\ perf_hist = <<>>
    /\ log_hist = <<>>
    /\ stream_pc = [s \in Streams |-> "off"]
    /\ stream_frame = [s \in Streams |-> NONE_BYTES]
    /\ query_pc = "idle"
    /\ query_kind = "-"
    /\ response = NoResponse
    /\ startups = 1
    /\ entry_i = 0 /\ append_failed = FALSE
    /\ InitChannel

NextQueries ==
    \/ \E kind \in Endpoints : QueryArrive(kind)
    \/ QueryAcquire
    \/ QueryRespond

\* The query endpoints over every cached state of that kind.
SpecQueries == InitQueries /\ [][NextQueries]_vars

NextStore ==
    \/ UpdaterFew
    \/ StoreRemoved
    \/ Restart

\* The updater thread over startups and outside events on the store.
SpecStore == Init /\ [][NextStore]_vars

\* ------------------------------------------------- the producer's process
\* One iteration of main()'s loop up to the write (lines 215-254): the
\* clock is read and a payload is built, from the engine's output or, when
\* the frame or the engine raised, from the exception.
ProducerBuild ==
    /\ producer_pc = "loop"
    /\ writes < MaxWrites
    /\ producer_payload' \in ProducerPayloads(now)
    /\ producer_pc' = "open"
    /\ UNCHANGED <<shared, now, pc, locals, cycles, history, consumers, startups, steps,
                   paths, inodes, producer_f, writes, json_pc, json_f, json_buf,
                   published, published_at_open>>

\* open(tmp, "w") (line 65): the file is created, or emptied if it exists.
ProducerOpen ==
    /\ producer_pc = "open"
    /\ LET tmp == TmpPath("json")
       IN IF paths[tmp] = 0
          THEN /\ inodes' = Append(inodes, <<>>)
               /\ paths' = [paths EXCEPT ![tmp] = Len(inodes) + 1]
               /\ producer_f' = Len(inodes) + 1
          ELSE /\ inodes' = [inodes EXCEPT ![paths[tmp]] = <<>>]
               /\ producer_f' = paths[tmp]
               /\ UNCHANGED paths
    /\ producer_pc' = "dump"
    /\ UNCHANGED <<shared, now, pc, locals, cycles, history, consumers, startups, steps,
                   producer_payload, writes, json_pc, json_f, json_buf,
                   published, published_at_open>>

\* json.dump(data, f) (line 66): the next piece of the text reaches the
\* file; after the last one the with block closes it.
ProducerDump ==
    /\ producer_pc = "dump"
    /\ LET written == Len(inodes[producer_f])
       IN /\ inodes' = [inodes EXCEPT ![producer_f] =
                           Append(@, Serialize(producer_payload)[written + 1])]
          /\ producer_pc' = IF written + 1 = JsonParts THEN "replace" ELSE "dump"
    /\ UNCHANGED <<shared, now, pc, locals, cycles, history, consumers, startups, steps,
                   paths, producer_payload, producer_f, writes, json_pc, json_f, json_buf,
                   published, published_at_open>>

\* os.replace(tmp, path) (line 67): the entry of path now names the file
\* written, the entry of tmp is gone; then the sleep of line 260.
ProducerReplace ==
    /\ producer_pc = "replace"
    /\ LET tmp == TmpPath("json")
       IN paths' = [f \in DOMAIN paths |->
                       IF f = "json" THEN paths[tmp] ELSE IF f = tmp THEN 0 ELSE paths[f]]
    /\ published' = Append(published, producer_payload)
    /\ writes' = writes + 1
    /\ producer_pc' = "loop"
    /\ UNCHANGED <<shared, now, pc, locals, cycles, history, consumers, startups, steps,
                   inodes, producer_payload, producer_f, json_pc, json_f, json_buf,
                   published_at_open>>

\* The producer is killed while it writes the text (the launcher's SIGKILL,
\* src/start.py lines 86-100) and started again later: the files stay as
\* they are.
ProducerKilled ==
    /\ producer_pc = "dump"
    /\ producer_pc' = "loop"
    /\ UNCHANGED <<shared, now, pc, locals, cycles, history, consumers, startups, steps,
                   paths, inodes, producer_payload, producer_f, writes, json_pc, json_f,
                   json_buf, published, published_at_open>>

ProducerStep ==
    \/ ProducerBuild
    \/ ProducerOpen
    \/ ProducerDump
    \/ ProducerReplace
    \/ ProducerKilled

\* Line 284, the frame read, and line 285 as far as open(path) in
\* _safe_read_json (line 107): without a file of that name it raises and
\* the payload is None.
JsonOpen ==
    /\ pc = "read"
    /\ json_pc = "idle"
    /\ frame_bytes' \in FewFrames
    /\ published_at_open' = Len(published)
    /\ IF paths["json"] = 0
       THEN /\ payload' = JSON_NONE
            /\ pc' = "render"
            /\ UNCHANGED <<json_pc, json_f, json_buf>>
       ELSE /\ json_f' = paths["json"]
            /\ json_buf' = <<>>
            /\ json_pc' = "load"
            /\ UNCHANGED <<payload, pc>>
    /\ UNCHANGED <<shared, now, branch, clock_read, annotated, lat_ms_f, cpu_f, mem_f,
                   csv_lines, new_log_entries, new_detections_count, csv_failed,
                   cycles, history, consumers, startups, steps, paths, inodes,
                   producer_pc, producer_payload, producer_f, writes, published>>

\* json.load(f) (line 108): f.read() takes the text of the open file piece
\* by piece up to its end, then the text is parsed.
JsonRead ==
    /\ json_pc = "load"
    /\ IF Len(json_buf) < Len(inodes[json_f])
       THEN /\ json_buf' = Append(json_buf, inodes[json_f][Len(json_buf) + 1])
            /\ UNCHANGED <<payload, pc, json_pc>>
       ELSE /\ payload' = JsonLoad(json_buf)
            /\ pc' = "render"
            /\ json_pc' = "idle"
            /\ UNCHANGED json_buf
    /\ UNCHANGED <<shared, now, frame_bytes, branch, clock_read, annotated, lat_ms_f,
                   cpu_f, mem_f, csv_lines, new_log_entries, new_detections_count,
                   csv_failed, cycles, history, consumers, startups, steps, paths,
                   inodes, producer_pc, producer_payload, producer_f, writes, json_f,
                   published, published_at_open>>

\* The steps of the updater thread on what the producer writes, as far as
\* the batch of line 401.
UpdaterOnChannel ==
    \/ EnsureCsvHeader
    \/ InitAcquire
    \/ InitCache
    \/ JsonOpen
    \/ JsonRead
    \/ RenderNoSignal
    \/ RenderRaw
    \/ RenderOverlay
    \/ CacheAcquire
    \/ CacheWrite
    \/ Dedup
    \/ LatAcquire
    \/ LatPush
    \/ PerfAcquire
    \/ PerfPush
    \/ Collect
    \/ Sleep(MaxCyclesChannel)

NextChannel ==
    \/ ProducerStep
    \/ UpdaterOnChannel

\* The producer's process beside the updater thread reading its payloads.
SpecChannel == Init /\ [][NextChannel]_vars

\* ------------------------------------- the critical section of lines 402-410
\* LogsUpdate, statement by statement.

\* Mutant: the with block ends after the counter.
ReleaseAfterCount(holder) == "free"

\* Line 407 is inside the with block of line 402: the lock stays held.
HoldAfterCount(holder) == holder

\* Lines 404-407: the counter.
LogsCount ==
    /\ pc = "logs_update"
    /\ total_detections' = CountAfterBatch(total_detections, new_detections_count)
    /\ entry_i' = 0
    /\ state_lock' = HoldAfterCount(state_lock)
    /\ pc' = "logs_insert"
    /\ UNCHANGED <<cached_annotated_jpeg, cached_last_frame_ok, recent_logs,
                   performance_history, latency_window, last_fps,
                   last_payload_timestamp_processed, csv_log, now, locals, cycles,
                   history, consumers, startups, append_failed, channel>>

\* Lines 409-410: one turn of the loop.
LogsInsert ==
    /\ pc = "logs_insert"
    /\ entry_i < Len(new_log_entries)
    /\ recent_logs' = DequeAppendLeft(recent_logs, new_log_entries[entry_i + 1],
                                      RECENT_LOGS_MAX)
    /\ log_hist' = Append(log_hist, new_log_entries[entry_i + 1])
    /\ entry_i' = entry_i + 1
    /\ UNCHANGED <<state_lock, cached_annotated_jpeg, cached_last_frame_ok,
                   performance_history, latency_window, total_detections, last_fps,
                   last_payload_timestamp_processed, csv_log, now, pc, locals, cycles,
                   prev_cycle, at_cycle_start, applied, lat_hist, perf_hist,
                   consumers, startups, append_failed, channel>>

\* The loop is over and the with block ends.
LogsRelease ==
    /\ pc = "logs_insert"
    /\ entry_i = Len(new_log_entries)
    /\ state_lock' = "free"
    /\ pc' = "csv_append"
    /\ UNCHANGED <<cached_annotated_jpeg, cached_last_frame_ok, recent_logs,
                   performance_history, latency_window, total_detections, last_fps,
                   last_payload_timestamp_processed, csv_log, now, locals, cycles,
                   history, others>>

\* Payloads with one detection and with more than recent_logs holds.
LogPayloads == {JSON_NONE, P_A, P_Big}

UpdaterLogSteps ==
    \/ EnsureCsvHeader
    \/ InitAcquire
    \/ InitCache
    \/ ReadInputs(FewFrames, LogPayloads)
    \/ RenderNoSignal
    \/ RenderRaw
    \/ RenderOverlay
    \/ CacheAcquire
    \/ CacheWrite
    \/ Dedup
    \/ LatAcquire
    \/ LatPush
    \/ PerfAcquire
    \/ PerfPush
    \/ Collect
    \/ LogsAcquire
    \/ LogsCount
    \/ LogsInsert
    \/ LogsRelease
    \/ CsvAppend
    \/ Sleep(MaxCyclesFew)

NextLogSteps ==
    \/ UpdaterLogSteps
    \/ \E kind \in Endpoints : QueryArrive(kind)
    \/ QueryAcquire
    \/ QueryRespond

\* The updater thread, its log update taken statement by statement, beside
\* the query handlers.
SpecLogSteps == Init /\ [][NextLogSteps]_vars

\* ================================================================== claims
\* The vocabulary of the claims, written from their wording.

\* The first n and the last n elements of a sequence, and its reverse.
Take(s, n) == SubSeq(s, 1, IF n < Len(s) THEN n ELSE Len(s))
LastN(s, n) == SubSeq(s, IF Len(s) > n THEN Len(s) - n + 1 ELSE 1, Len(s))
Reverse(s) == [i \in 1..Len(s) |-> s[Len(s) + 1 - i]]

\* The freshness class of a cycle's payload at clock reading `clock`.
ClaimClass(p, clock) ==
    IF p.t # "dict" \/ p.timestamp.k \notin {"text", "iso"} THEN "MISSING"
    ELSE IF p.timestamp.k = "text" THEN "FRESH"
    ELSE IF clock - p.timestamp.v > STALE_JSON_S THEN "STALE"
    ELSE "FRESH"

\* A qualifying detection: class person, bbox a list of exactly 4 (finite)
\* numbers.
ClaimQualifies(det) ==
    /\ det.t = "dict"
    /\ det.class = "person"
    /\ det.bbox.t = "list"
    /\ Len(det.bbox.items) = 4
    /\ \A i \in 1..4 : det.bbox.items[i].t = "num"

\* The qualifying detections of a payload, in order, and their number k.
ClaimQualifying(p) ==
    IF p.detections.t = "list" THEN SelectSeq(p.detections.items, ClaimQualifies) ELSE <<>>
ClaimK(p) == Len(ClaimQualifying(p))

\* The cycle has passed its classification.
Classified ==
    pc \in {"cache_lock", "cache_write", "dedup", "lat_lock", "lat_push", "perf_lock",
            "perf_push", "collect", "logs_lock", "logs_update", "csv_append", "sleep"}

\* The cycle is over (the updater is at its sleep).
CycleEnd == pc = "sleep"

\* The cycle had a frame and a FRESH payload.
FreshCycle == frame_bytes # NONE_BYTES /\ ClaimClass(payload, clock_read) = "FRESH"

\* C1: when a cycle with a frame and a FRESH payload observes the timestamp
\* the previous cycle observed (also with a frame and FRESH), no step of
\* it changes total_detections, recent_logs, latency_window,
\* performance_history or the durable log.
C1_SameTimestampAggregatedOnce ==
    [][(/\ Classified
        /\ FreshCycle
        /\ prev_cycle.branch = "overlay"
        /\ prev_cycle.ts = payload.timestamp)
       => UNCHANGED <<total_detections, recent_logs, latency_window,
                      performance_history, csv_log>>]_vars

\* Three consecutive cycles observed one timestamp, FRESH and with a frame,
\* and it was aggregated once, with effect.
C1_Witness ==
    /\ CycleEnd /\ cycles = 2
    /\ FreshCycle
    /\ prev_cycle.branch = "overlay"
    /\ prev_cycle.ts = payload.timestamp
    /\ applied = <<payload.timestamp>>
    /\ total_detections > 0
    /\ Len(lat_hist) = 1

\* C2: every distinct payload timestamp is applied to aggregate state at
\* most once, whatever the sequence of timestamps observed.
C2_EachTimestampAppliedAtMostOnce ==
    \A i, j \in DOMAIN applied : applied[i] = applied[j] => i = j

\* C3: in every reachable state from module import onwards the cached
\* annotated frame is a present, non-empty byte string.
C3_CachedFrameNeverEmpty ==
    cached_annotated_jpeg \notin {NONE_BYTES, EMPTY_BYTES}

\* C4: at the end of every cycle, (1) no frame: the placeholder is cached
\* and frame_valid is false, whatever the payload; (2) a frame and a MISSING
\* or STALE payload: the raw frame bytes and frame_valid true; (3) a frame
\* and a FRESH payload: the renderer's output and frame_valid true.
C4_ThreeCasePolicy ==
    CycleEnd =>
       /\ frame_bytes = NONE_BYTES =>
             /\ cached_annotated_jpeg = GenerateNoSignalFrame
             /\ cached_last_frame_ok = FALSE
       /\ (frame_bytes # NONE_BYTES
           /\ ClaimClass(payload, clock_read) \in {"MISSING", "STALE"}) =>
             /\ cached_annotated_jpeg = frame_bytes
             /\ cached_last_frame_ok = TRUE
       /\ FreshCycle =>
             /\ cached_annotated_jpeg = OverlayDetections(frame_bytes, payload)
             /\ cached_last_frame_ok = TRUE

\* A cycle with a frame and a STALE payload ended right after a cycle that
\* had cached an annotated frame with boxes.
C4_Witness ==
    /\ CycleEnd
    /\ frame_bytes = CAM_BYTES
    /\ ClaimClass(payload, clock_read) = "STALE"
    /\ cached_annotated_jpeg = CAM_BYTES
    /\ prev_cycle.branch = "overlay"
    /\ Len(log_hist) > 0

C6_FreshnessClassification ==
    /\ (Classified /\ frame_bytes # NONE_BYTES) =>
          /\ ClaimClass(payload, clock_read) = "FRESH" <=> branch = "overlay"
          /\ ClaimClass(payload, clock_read) \in {"MISSING", "STALE"} <=> branch = "raw"
    /\ (pc = "dead" /\ frame_bytes # NONE_BYTES) =>
          ClaimClass(payload, clock_read) = "FRESH"

\* A payload exactly as old as the threshold was taken as FRESH.
C6_Witness ==
    /\ CycleEnd
    /\ branch = "overlay"
    /\ payload.timestamp.k = "iso"
    /\ clock_read - payload.timestamp.v = STALE_JSON_S

\* A scalar as the claims say it is taken: a number (whatever float() gives,
\* NaN included), or 0.0 when not numeric.
ClaimNumber(j) == IF j.t \in {"num", "nan"} THEN j ELSE Num(0)

\* The {cpu, memory} sample of a payload.
ClaimSample(p) ==
    [cpu |-> IF p.system.t = "dict" THEN ClaimNumber(p.system.cpu_percent) ELSE Num(0),
     memory |-> IF p.system.t = "dict" THEN ClaimNumber(p.system.memory_percent) ELSE Num(0)]

\* The LogEntry records of a payload's qualifying detections, in order.
ClaimEntries(p, time) ==
    [i \in 1..ClaimK(p) |->
        [time |-> time, class |-> "person",
         confidence |-> ClaimNumber(ClaimQualifying(p)[i].confidence),
         inference_time |-> ClaimNumber(p.latency_ms)]]

\* A push onto a bounded history, and inserts at the front of recent_logs.
ClaimPush(w, x, cap) == LastN(w \o <<x>>, cap)
ClaimInsertFront(logs, entries) == Take(Reverse(entries) \o logs, RECENT_LOGS_MAX)

\* The cycle that just ended had a frame and a FRESH payload whose timestamp
\* differed from the watermark.
Processed == CycleEnd /\ FreshCycle /\ payload.timestamp # at_cycle_start.watermark

\* The durable log grew by exactly one line per qualifying detection.
ClaimLinesAppended ==
    /\ Len(csv_log) = Len(at_cycle_start.csv_log) + ClaimK(payload)
    /\ Take(csv_log, Len(at_cycle_start.csv_log)) = at_cycle_start.csv_log
    /\ \A i \in 1..ClaimK(payload) :
          LET line == csv_log[Len(at_cycle_start.csv_log) + i]
          IN /\ line.header = FALSE
             /\ line.ts = payload.timestamp
             /\ line.conf = ClaimNumber(ClaimQualifying(payload)[i].confidence)

\* What C7 says of the watermark, the two histories and the counter.
ClaimWatermarkAndHistories ==
    /\ last_payload_timestamp_processed = payload.timestamp
    /\ latency_window = ClaimPush(at_cycle_start.latency_window,
                                  ClaimNumber(payload.latency_ms), LAT_WINDOW_MAX)
    /\ performance_history = ClaimPush(at_cycle_start.performance_history,
                                       ClaimSample(payload), PERF_MAX)
    /\ total_detections = at_cycle_start.total_detections + ClaimK(payload)

C8_BoundedHistories ==
    /\ Len(latency_window) <= LAT_WINDOW_MAX
    /\ Len(performance_history) <= PERF_MAX
    /\ Len(recent_logs) <= RECENT_LOGS_MAX

\* Every history is full and has evicted, recent_logs by one payload with
\* more detections than it holds.
C8_Witness ==
    /\ CycleEnd
    /\ new_detections_count > RECENT_LOGS_MAX
    /\ Len(recent_logs) = RECENT_LOGS_MAX
    /\ Len(latency_window) = LAT_WINDOW_MAX /\ Len(lat_hist) > LAT_WINDOW_MAX
    /\ Len(performance_history) = PERF_MAX /\ Len(perf_hist) > PERF_MAX

\* C9: each bounded history holds the most recently inserted elements, the
\* earliest inserted evicted first: latency_window and performance_history
\* in insertion order, recent_logs newest first.
C9_FifoEvictionNewestFirst ==
    /\ latency_window = LastN(lat_hist, LAT_WINDOW_MAX)
    /\ performance_history = LastN(perf_hist, PERF_MAX)
    /\ recent_logs = Reverse(LastN(log_hist, RECENT_LOGS_MAX))

\* All three histories have evicted and recent_logs holds entries of two
\* payloads.
C9_Witness ==
    /\ Len(lat_hist) > LAT_WINDOW_MAX
    /\ Len(perf_hist) > PERF_MAX
    /\ Len(log_hist) > RECENT_LOGS_MAX
    /\ Len(recent_logs) = RECENT_LOGS_MAX
    /\ recent_logs[1].inference_time # recent_logs[RECENT_LOGS_MAX].inference_time

\* What C10 says of the counter, the log and the defaulted fields.
ClaimSiblingsCounted ==
    /\ total_detections = at_cycle_start.total_detections + ClaimK(payload)
    /\ [i \in 1..Len(recent_logs) |->
           <<recent_logs[i].confidence, recent_logs[i].inference_time>>]
         = Take(Reverse([i \in 1..ClaimK(payload) |->
                           <<ClaimNumber(ClaimQualifying(payload)[i].confidence),
                             ClaimNumber(payload.latency_ms)>>])
                \o [i \in 1..Len(at_cycle_start.recent_logs) |->
                      <<at_cycle_start.recent_logs[i].confidence,
                        at_cycle_start.recent_logs[i].inference_time>>],
                RECENT_LOGS_MAX)
    /\ last_fps = ClaimNumber(payload.fps)
    /\ latency_window # <<>>
    /\ latency_window[Len(latency_window)] = ClaimNumber(payload.latency_ms)
    /\ performance_history # <<>>
    /\ performance_history[Len(performance_history)] = ClaimSample(payload)

C11_FailedAppendKeptNotRetried ==
    /\ [](csv_failed => pc = "sleep")
    /\ [][(pc = "csv_append" =>
              UNCHANGED <<total_detections, recent_logs, latency_window,
                          performance_history, last_payload_timestamp_processed>>)
           /\ ((Classified /\ prev_cycle.csv_failed /\ prev_cycle.ts = payload.timestamp) =>
                 UNCHANGED csv_log)
           /\ ((pc # "start" /\ csv_log' # csv_log) =>
                 (/\ pc = "csv_append"
                  /\ payload.timestamp # at_cycle_start.watermark
                  /\ csv_log' = csv_log \o csv_lines))]_vars

\* The append of a batch failed and the next cycle, observing the same
\* timestamp with a frame, has ended: the log holds its header only while
\* the detections are counted.
C11_Witness ==
    /\ CycleEnd
    /\ FreshCycle
    /\ prev_cycle.csv_failed
    /\ prev_cycle.ts = payload.timestamp
    /\ csv_log = <<CSV_HEADER>>
    /\ total_detections = ClaimK(payload)
    /\ total_detections > 0

\* C12: the overlay step never raises to the update loop: the thread never
\* ends in a cycle that had a frame, and a cycle whose renderer failed
\* inside (the frame does not decode) ends with the original frame cached
\* and frame_valid true.
C12_OverlayNeverRaises ==
    /\ ~(pc = "dead" /\ frame_bytes # NONE_BYTES)
    /\ (CycleEnd /\ branch = "overlay" /\ DecodeFails(frame_bytes)) =>
          (cached_annotated_jpeg = frame_bytes /\ cached_last_frame_ok = TRUE)

\* C13: no error condition is fatal to the update task: the updater thread
\* never ends.
C13_UpdaterNeverDies == pc # "dead"

\* A step of a request thread: a consumer or a query moves.
ReaderMoves == consumers' # consumers

\* C14: no step of a reader changes the cached frame, frame_valid,
\* total_detections, last_fps, a history, the watermark or the durable log,
\* and, the consumers being as many and as busy as they may, the aggregates
\* count what the updater applied: one latency and one sample per applied
\* payload, one log entry and one durable line per counted detection.
C14_ReadersAreReadOnly ==
    /\ [][ReaderMoves =>
             UNCHANGED <<cached_annotated_jpeg, cached_last_frame_ok, total_detections,
                         last_fps, latency_window, performance_history, recent_logs,
                         last_payload_timestamp_processed, csv_log>>]_vars
    /\ [](CycleEnd =>
             /\ Len(lat_hist) = Len(applied)
             /\ Len(perf_hist) = Len(applied)
             /\ Len(log_hist) = total_detections
             /\ Len(csv_log) = 1 + total_detections)

\* Both consumers hold a frame to send and a stats query was answered after
\* a payload had been aggregated, in a later cycle that observed it again.
C14_Witness ==
    /\ CycleEnd
    /\ cycles >= 1
    /\ \A s \in Streams : stream_pc[s] = "send" /\ stream_frame[s].boxes # <<>>
    /\ response.kind = "stats"
    /\ response.count = 1
    /\ total_detections = 1
    /\ prev_cycle.ts = payload.timestamp
    /\ branch = "overlay"

\* C15: with consumer s1 for ever at its yield, the updater completes the
\* cycle it is in, every consumer that is after the lock obtains it and
\* reads its frame, and every query that is after the lock is answered.
C15_StalledConsumerBlocksNoOne ==
    /\ (pc # "sleep") ~> (pc = "sleep")
    /\ \A s \in Streams : (stream_pc[s] = "lock") ~> (stream_pc[s] = "send")
    /\ (query_pc = "lock") ~> (query_pc = "idle")

\* s1 is still at the yield with the placeholder it read at startup, while
\* the updater has completed a cycle that aggregated a payload, the other
\* consumer has read the annotated frame and a query was answered.
C15_Witness ==
    /\ stream_pc["s1"] = "send" /\ stream_frame["s1"] = GenerateNoSignalFrame
    /\ stream_pc["s2"] = "send" /\ stream_frame["s2"].boxes # <<>>
    /\ CycleEnd
    /\ response.kind = "stats" /\ response.count = 1

\* C16: a thread holds state_lock only while it is at an in-memory access:
\* the updater at one of its five cache updates, never while it writes the
\* header, reads the inputs, renders, appends to the durable log or sleeps
\* (the append comes after the release); a consumer only at its read of
\* the cached frame, never at its yield; a query only while it builds its
\* response.
C16_LockOnlyAcrossMemoryAccess ==
    /\ state_lock = "updater" =>
          pc \in {"init_cache", "cache_write", "lat_push", "perf_push", "logs_update"}
    /\ pc \in {"start", "read", "render", "csv_append", "sleep"} => state_lock # "updater"
    /\ \A s \in Streams :
          /\ state_lock = s => stream_pc[s] = "read"
          /\ stream_pc[s] = "send" => state_lock # s
    /\ state_lock = "query" => query_pc = "read"

\* The updater is at the durable append of a batch while one consumer
\* holds the lock and the other is sending.
C16_Witness ==
    /\ pc = "csv_append"
    /\ csv_lines # <<>>
    /\ state_lock = "s1"
    /\ stream_pc["s2"] = "send"
    /\ query_pc = "lock"

\* Consumer s leaves its read of the cache with the frame it will send.
StreamReads(s) == stream_pc[s] = "read" /\ stream_pc'[s] = "send"

\* The updater is in a cycle that found no frame.
AbsentCycle ==
    frame_bytes = NONE_BYTES /\ pc \in {"render", "cache_lock", "cache_write", "sleep"}

\* ... and the cache was last written by a cycle that found no frame: this
\* cycle has written it, or the previous cycle had none either.
AbsentCycleWritten ==
    \/ frame_bytes = NONE_BYTES /\ pc = "sleep"
    \/ AbsentCycle /\ prev_cycle.branch = "nosignal"

\* C17 as claimed: every read of the cache made while the updater is in
\* one of N consecutive cycles without a frame returns the placeholder,
\* frame_valid being false.
C17_AsClaimed ==
    [][\A s \in Streams :
          (AbsentCycle /\ StreamReads(s)) =>
             (stream_frame'[s] = GenerateNoSignalFrame /\ cached_last_frame_ok = FALSE)]_vars

\* C17, amended: every read made from the first cache write of those
\* cycles on returns the placeholder, frame_valid being false.
C17_AbsentFrameReadsPlaceholder ==
    [][\A s \in Streams :
          (AbsentCycleWritten /\ StreamReads(s)) =>
             (stream_frame'[s] = GenerateNoSignalFrame /\ cached_last_frame_ok = FALSE)]_vars

\* In the second of two cycles without a frame, after a cycle that had
\* cached an annotated frame, one consumer has read the placeholder while
\* the other still holds the annotated frame it read before.
C17_Witness ==
    /\ AbsentCycle
    /\ prev_cycle.branch = "nosignal"
    /\ total_detections > 0
    /\ stream_pc["s1"] = "send" /\ stream_frame["s1"] = GenerateNoSignalFrame
    /\ stream_pc["s2"] = "send" /\ stream_frame["s2"].boxes # <<>>
    /\ cached_annotated_jpeg = GenerateNoSignalFrame

QueryResponds == query_pc = "read" /\ query_pc' = "idle"

\* The sum of a window without NaN.
RECURSIVE ClaimSum(_)
ClaimSum(w) == IF w = <<>> THEN 0 ELSE Head(w).v + ClaimSum(Tail(w))

\* No value of the window is NaN.
ClaimFinite(w) == \A i \in 1..Len(w) : w[i].t = "num"

\* What C19 says of the counts and of the empty window, and that the query
\* does not fail.
ClaimStatsCounts ==
    /\ (QueryResponds /\ query_kind = "stats") =>
          /\ response'.kind = "stats"
          /\ response'.avg_inference_time.t \in {"num", "nan"}
          /\ response'.count = total_detections
          /\ latency_window = <<>> => response'.avg_inference_time = Num(0)
    /\ (QueryResponds /\ query_kind = "detection_stats") =>
          /\ response'.kind = "detection_stats"
          /\ response'.count = total_detections

\* C19 as claimed: avg_inference_time is the arithmetic mean, sum divided
\* by length, of the values in latency_window.
C19_AsClaimed ==
    [][/\ ClaimStatsCounts
       /\ (QueryResponds /\ query_kind = "stats" /\ latency_window # <<>>
            /\ ClaimFinite(latency_window)) =>
             response'.avg_inference_time.v * Len(latency_window) = ClaimSum(latency_window)]_vars

\* C19, amended: avg_inference_time is that mean rounded to two decimal
\* places: a multiple of 0.01 at most 0.005 away from it.
C19_StatsMeanRounded ==
    [][/\ ClaimStatsCounts
       /\ (QueryResponds /\ query_kind = "stats" /\ latency_window # <<>>
            /\ ClaimFinite(latency_window)) =>
             LET avg == response'.avg_inference_time.v
                 diff == avg * Len(latency_window) - ClaimSum(latency_window)
             IN /\ avg % 10 = 0
                /\ 2 * diff <= 10 * Len(latency_window)
                /\ 2 * diff >= -10 * Len(latency_window)]_vars

\* A stats query on a full window whose mean is no multiple of 0.01 was
\* answered.
C19_Witness ==
    /\ response.kind = "stats"
    /\ Len(latency_window) = LAT_WINDOW_MAX
    /\ ClaimFinite(latency_window)
    /\ ClaimSum(latency_window) % (10 * LAT_WINDOW_MAX) # 0
    /\ response.count = total_detections
    /\ total_detections > 0

\* C20: after any sequence of startups, appends and outside removals or
\* truncations, a non-empty store begins with a header row and holds no
\* other header row.
C20_HeaderExactlyOnceAtTop ==
    csv_log # <<>> =>
       /\ csv_log[1].header
       /\ \A i \in 2..Len(csv_log) : ~csv_log[i].header

\* C21: whatever the interleaving of the producer's write steps with the
\* updater's read of the payload file, the read gives nothing if the file
\* did not exist when it was opened, and otherwise a whole payload: the one
\* in place at the open or one renamed into place since.
C21_ReadIsWholePreviousOrNew ==
    pc = "render" =>
       IF published_at_open = 0 THEN payload = JSON_NONE
       ELSE \E i \in published_at_open..Len(published) :
               payload = LoadPayload(published[i])

\* A read that began after the first payload was in place and during which
\* the producer opened, wrote and renamed a different one gave the first.
C21_Witness ==
    /\ pc = "render"
    /\ published_at_open = 1
    /\ Len(published) = 2
    /\ published[1] # published[2]
    /\ payload = LoadPayload(published[1])
    /\ payload # LoadPayload(published[2])

\* The DetectionPayload shape, of a document as written: a timestamp with
\* UTC offset, numeric latency_ms and fps, every detection with a class, a
\* confidence and a bbox of 4 numbers.
ClaimConforms(d) ==
    /\ d.timestamp.k = "iso"
    /\ d.latency_ms.t = "num"
    /\ d.fps.t = "num"
    /\ \A i \in 1..Len(d.detections) :
          /\ {"class", "confidence", "bbox"} \subseteq DOMAIN d.detections[i]
          /\ d.detections[i].bbox.t = "list"
          /\ Len(d.detections[i].bbox.items) = 4
          /\ \A j \in 1..4 : d.detections[i].bbox.items[j].t = "num"

\* C22: every payload the producer's main loop has written to input channel
\* B conforms to the DetectionPayload shape the aggregator reads.
C22_ProducerPayloadsConform ==
    \A i \in 1..Len(published) : ClaimConforms(published[i])

\* A step writes a field of the cache snapshot (it changes it).
ClaimSnapshotWritten ==
    \/ cached_annotated_jpeg' # cached_annotated_jpeg
    \/ cached_last_frame_ok' # cached_last_frame_ok
    \/ total_detections' # total_detections
    \/ last_fps' # last_fps
    \/ latency_window' # latency_window
    \/ performance_history' # performance_history
    \/ recent_logs' # recent_logs

\* C23: every step that writes a field of the cache snapshot is a step of
\* the update loop taken while it holds state_lock, and every step in which
\* a stream or query handler reads a field is taken while the handler holds
\* state_lock.
C23_LockingDiscipline ==
    [][/\ (ClaimSnapshotWritten => (state_lock = "updater" /\ pc' # pc))
       /\ (\A s \in Streams : StreamReads(s) => state_lock = s)
       /\ (QueryResponds => state_lock = "query")]_vars

\* C24: in every state in which the updater does not hold the lock, and so
\* in everything a query handler reads, total_detections is the number of
\* log entries ever inserted and recent_logs holds the smaller of that number
\* and its capacity.
C24_CounterAndLogsInOneSection ==
    /\ [](state_lock # "updater" =>
             /\ total_detections = Len(log_hist)
             /\ Len(recent_logs) =
                   (IF total_detections < RECENT_LOGS_MAX THEN total_detections
                    ELSE RECENT_LOGS_MAX))
    /\ [][QueryResponds =>
             /\ total_detections = Len(log_hist)
             /\ recent_logs = Take(Reverse(log_hist), RECENT_LOGS_MAX)]_vars

\* The updater is between the counter and the last insertion of a batch,
\* the counter ahead of the entries inserted, and a query handler that
\* arrived meanwhile is kept waiting for the lock.
C24_Witness ==
    /\ pc = "logs_insert"
    /\ state_lock = "updater"
    /\ 0 < entry_i /\ entry_i < Len(new_log_entries)
    /\ total_detections > Len(log_hist)
    /\ query_pc = "lock"
    /\ query_kind = "logs"

\* The detection lines of the durable log.
ClaimDetectionLines == Cardinality({i \in 1..Len(csv_log) : ~csv_log[i].header})

\* C25: the durable log never holds more detection lines than
\* total_detections counts, and at the end of every cycle before which no
\* append has failed it holds exactly as many.
C25_DurableLinesAtMostCounted ==
    /\ ClaimDetectionLines <= total_detections
    /\ (CycleEnd /\ ~append_failed) => ClaimDetectionLines = total_detections

\* The end of a cycle whose append succeeded after the append of an earlier
\* cycle had failed: the log holds some of the counted detections, not all.
C25_Witness ==
    /\ CycleEnd
    /\ append_failed /\ ~csv_failed
    /\ new_detections_count > 0
    /\ 0 < ClaimDetectionLines
    /\ ClaimDetectionLines < total_detections

====
